---------------------------- MODULE Spec2Model ----------------------------
(***************************************************************************)
(* A model of mcp_obsidian/server.py: the process start-up (the module's   *)
(* import-time credential check and main()), and the twelve tool handlers  *)
(* registered on the FastMCP instance.  The runtime delivers one tool call *)
(* at a time to a handler (the handlers are plain synchronous functions),  *)
(* the handler validates the declared parameters, builds an Obsidian       *)
(* client, makes its client call and returns.                              *)
(*                                                                         *)
(* Text is modelled as a sequence of one-character strings, so that        *)
(* json.dumps and the f-string messages are computed character by          *)
(* character.  A JSON value is a record [k, v]: k is the Python type the   *)
(* value has ("null", "bool", "int", "str", "list", "dict"), v its         *)
(* payload; a dict's payload is the sequence of its <<key, value>> pairs   *)
(* in insertion order.  A mapping with optional entries (the process       *)
(* environment, the arguments of a tool call) is a function whose DOMAIN   *)
(* holds the names that are present.                                       *)
(***************************************************************************)
EXTENDS Integers, Sequences, FiniteSets, TLC

VARIABLES
    pc,          \* "import", "imported", "refused", "exited", "serving", "dispatch", "responded"
    environ,     \* os.environ, restricted to OBSIDIAN_API_KEY
    dotenv,      \* the .env file load_dotenv() reads
    api_key,     \* the module global api_key
    settings,    \* mcp.settings (host, port)
    transport,   \* the transport mcp.run was started with
    tool,        \* the tool of the call being served
    args,        \* its arguments, as the caller sent them
    api,         \* the handler's local client: <<>> or <<the instance>>
    calls,       \* the client method calls the handler made, in order
    outcome,     \* "none", "rejected", "error", "ok"
    error,       \* the error the call ended with ("" when none)
    result,      \* what the client call returned (a JSON value)
    formatted,   \* obsidian_simple_search's formatted_results (a JSON value)
    reads,       \* how each per-path read of a batch read ended
    sections,    \* get_batch_file_contents' per-path sections
    returned     \* what the handler returned: [form, v]

vars == <<pc, environ, dotenv, api_key, settings, transport, tool, args, api,
          calls, outcome, error, result, formatted, reads, sections, returned>>

startup_vars == <<environ, dotenv, api_key, settings, transport>>
call_vars == <<tool, args, api, calls, outcome, error, result, formatted,
               reads, sections, returned>>

(***************************************************************************)
(* Bounds of the model.                                                    *)
(***************************************************************************)
MaxResults == 2      \* results in one api.search answer
MaxMatches == 2      \* matches in one search result
MaxPaths == 2        \* paths in one batch read
Slack == 1           \* how far beyond each numeric limit the inputs reach

(***************************************************************************)
(* Text.                                                                   *)
(***************************************************************************)
Char == {"a", "b", "d", "x", "/", ".", " ", "\"", "\\", "\n", "#"}

RECURSIVE Flatten(_)
Flatten(ss) ==
    IF ss = <<>> THEN <<>> ELSE Head(ss) \o Flatten(Tail(ss))

\* Python's s[start:end] for 0 <= start, 0 <= end.
Slice(s, start, end) ==
    SubSeq(s, start + 1, IF end > Len(s) THEN Len(s) ELSE end)

DigitChar(d) ==
    CASE d = 0 -> "0" [] d = 1 -> "1" [] d = 2 -> "2" [] d = 3 -> "3"
      [] d = 4 -> "4" [] d = 5 -> "5" [] d = 6 -> "6" [] d = 7 -> "7"
      [] d = 8 -> "8" [] d = 9 -> "9"

RECURSIVE NatText(_)
NatText(n) ==
    IF n < 10 THEN <<DigitChar(n)>>
    ELSE NatText(n \div 10) \o <<DigitChar(n % 10)>>

\* str(n) and json.dumps(n) of an int.
IntText(n) ==
    IF n < 0 THEN <<"-">> \o NatText(0 - n) ELSE NatText(n)

(***************************************************************************)
(* JSON values and json.dumps(value, indent=2).                            *)
(***************************************************************************)
JNull == [k |-> "null", v |-> <<>>]
JInt(n) == [k |-> "int", v |-> n]
JStr(s) == [k |-> "str", v |-> s]
JList(xs) == [k |-> "list", v |-> xs]
JDict(kv) == [k |-> "dict", v |-> kv]

\* dict.get(key, default)
HasKey(d, key) == \E i \in 1..Len(d.v) : d.v[i][1] = key
Get(d, key, default) ==
    IF HasKey(d, key)
    THEN d.v[CHOOSE i \in 1..Len(d.v) : d.v[i][1] = key][2]
    ELSE default

\* The JSON escape of one character (json.encoder.ESCAPE_ASCII).
EscapeChar(c) ==
    CASE c = "\"" -> <<"\\", "\"">>
      [] c = "\\" -> <<"\\", "\\">>
      [] c = "\n" -> <<"\\", "n">>
      [] c = "\t" -> <<"\\", "t">>
      [] c = "\r" -> <<"\\", "r">>
      [] OTHER -> <<c>>

\* json.dumps of a str: quoted, with its characters escaped.
JsonString(s) ==
    <<"\"">> \o Flatten([i \in 1..Len(s) |-> EscapeChar(s[i])]) \o <<"\"">>

\* The line break and indentation json.dumps(indent=2) writes at a depth.
RECURSIVE Spaces(_)
Spaces(n) == IF n = 0 THEN <<>> ELSE <<" ">> \o Spaces(n - 1)

NewlineIndent(level) == <<"\n">> \o Spaces(2 * level)

RECURSIVE JsonDumpsAt(_, _)
RECURSIVE JsonItems(_, _, _)
RECURSIVE JsonPairs(_, _, _)

JsonItems(xs, level, i) ==
    IF i > Len(xs) THEN <<>>
    ELSE (IF i = 1 THEN <<>> ELSE <<",">>) \o NewlineIndent(level)
         \o JsonDumpsAt(xs[i], level) \o JsonItems(xs, level, i + 1)

JsonPairs(kv, level, i) ==
    IF i > Len(kv) THEN <<>>
    ELSE (IF i = 1 THEN <<>> ELSE <<",">>) \o NewlineIndent(level)
         \o JsonString(kv[i][1]) \o <<":", " ">>
         \o JsonDumpsAt(kv[i][2], level) \o JsonPairs(kv, level, i + 1)

JsonDumpsAt(val, level) ==
    CASE val.k = "null" -> <<"n", "u", "l", "l">>
      [] val.k = "bool" -> IF val.v THEN <<"t", "r", "u", "e">>
                           ELSE <<"f", "a", "l", "s", "e">>
      [] val.k = "int" -> IntText(val.v)
      [] val.k = "str" -> JsonString(val.v)
      [] val.k = "list" ->
            IF Len(val.v) = 0 THEN <<"[", "]">>
            ELSE <<"[">> \o JsonItems(val.v, level + 1, 1)
                 \o NewlineIndent(level) \o <<"]">>
      [] val.k = "dict" ->
            IF Len(val.v) = 0 THEN <<"{", "}">>
            ELSE <<"{">> \o JsonPairs(val.v, level + 1, 1)
                 \o NewlineIndent(level) \o <<"}">>

\* json.dumps(value, indent=2)
JsonDumps(val) == JsonDumpsAt(val, 0)

(***************************************************************************)
(* What a handler returns: a str, or a list of TextContent.                *)
(***************************************************************************)
NoReturn == [form |-> "none", v |-> <<>>]
ReturnStr(text) == [form |-> "str", v |-> text]
TextContent(text) == [type |-> "text", text |-> text]
ReturnContent(items) == [form |-> "content", v |-> items]

(***************************************************************************)
(* Start-up: the module's import (lines 20-24), then main().               *)
(***************************************************************************)
NoEnv == [n \in {} |-> ""]
KeyVar == "OBSIDIAN_API_KEY"

\* load_dotenv(): a variable of the .env file is set unless the environment
\* already holds it (override=False).
load_dotenv(env, file) ==
    [n \in DOMAIN env \cup DOMAIN file |->
        IF n \in DOMAIN env THEN env[n] ELSE file[n]]

\* os.getenv(name, default)
getenv(env, name, default) ==
    IF name \in DOMAIN env THEN env[name] ELSE default

EnvValues == {NoEnv, [OBSIDIAN_API_KEY |-> ""], [OBSIDIAN_API_KEY |-> "key-env"]}
DotenvValues == {NoEnv, [OBSIDIAN_API_KEY |-> "key-file"]}

NoCall ==
    /\ tool = "" /\ args = NoEnv /\ api = <<>> /\ calls = <<>>
    /\ outcome = "none" /\ error = "" /\ result = JNull
    /\ formatted = JNull /\ reads = <<>> /\ sections = <<>>
    /\ returned = NoReturn

Init ==
    /\ pc = "import"
    /\ environ \in EnvValues
    /\ dotenv \in DotenvValues
    /\ api_key = ""
    /\ settings = [host |-> "", port |-> 0]
    /\ transport = ""
    /\ NoCall

\* ImportModule without the check of line 23.
ImportModule_Unchecked ==
    /\ pc = "import"
    /\ environ' = load_dotenv(environ, dotenv)
    /\ api_key' = getenv(environ', KeyVar, "")
    /\ pc' = "imported"
    /\ UNCHANGED <<dotenv, settings, transport>>
    /\ UNCHANGED call_vars

\* Lines 20-24: the key is read once; an empty key raises ValueError.
ImportModule ==
    /\ pc = "import"
    /\ environ' = load_dotenv(environ, dotenv)
    /\ api_key' = getenv(environ', KeyVar, "")
    /\ pc' = IF api_key' = "" THEN "refused" ELSE "imported"
    /\ UNCHANGED <<dotenv, settings, transport>>
    /\ UNCHANGED call_vars

DefaultPort == 8001
DefaultHost == "127.0.0.1"
DefaultTransport == "stdio"
TransportChoices == {"stdio", "sse"}

Argvs ==
    {NoEnv, [transport |-> "http"],
     [transport |-> "sse", host |-> "0.0.0.0", port |-> DefaultPort + 1]}

ArgOr(a, name, default) == IF name \in DOMAIN a THEN a[name] ELSE default

\* main(): argparse rejects a transport outside the choices (exit), else the
\* settings are set and the server runs.
main ==
    /\ pc = "imported"
    /\ \E argv \in Argvs :
         IF ArgOr(argv, "transport", DefaultTransport) \notin TransportChoices
         THEN /\ pc' = "exited"
              /\ UNCHANGED <<settings, transport>>
         ELSE /\ settings' = [host |-> ArgOr(argv, "host", DefaultHost),
                              port |-> ArgOr(argv, "port", DefaultPort)]
              /\ transport' = ArgOr(argv, "transport", DefaultTransport)
              /\ pc' = "serving"
    /\ UNCHANGED <<environ, dotenv, api_key>>
    /\ UNCHANGED call_vars

(***************************************************************************)
(* The values tool calls are made with, and what the vault API answers.    *)
(***************************************************************************)
P_a == <<"a">>
P_dotted == <<"d", "/", ".", ".", "/", "a">>
P_spaced == <<" ", "a", "/">>
Paths == {P_a, P_dotted, P_spaced}

Contents == {<<>>, <<"x">>, <<"a", "\"", "b">>, <<"#", " ", "a", "\n", "\\">>}

ClientErrors == {"HTTP 404", "HTTP 500", "ConnectionError"}

\* A client call ends by returning a value or by raising.
Returns(values) == {[ok |-> TRUE, value |-> val, error |-> ""] : val \in values}
Raises == {[ok |-> FALSE, value |-> JNull, error |-> e] : e \in ClientErrors}

RECURSIVE SeqsUpTo(_, _)
SeqsUpTo(S, n) ==
    IF n = 0 THEN {<<>>}
    ELSE LET shorter == SeqsUpTo(S, n - 1)
         IN  shorter \cup {Append(s, x) : s \in {t \in shorter : Len(t) = n - 1}, x \in S}

Around(n) == (n - Slack)..(n + Slack)

\* The arguments of a call with one of them left out.
Drop(a, name) == [n \in DOMAIN a \ {name} |-> a[n]]
WithOmissions(full) ==
    full \cup UNION {{Drop(a, name) : name \in DOMAIN a} : a \in full}

\* Declared defaults fill the parameters the caller left out.
Bind(a, defaults) ==
    [n \in DOMAIN a \cup DOMAIN defaults |->
        IF n \in DOMAIN a THEN a[n] ELSE defaults[n]]

Has(a, names) == names \subseteq DOMAIN a

(***************************************************************************)
(* The runtime: a tool call arrives, its handler runs, the answer leaves.  *)
(***************************************************************************)
\* obsidian.Obsidian(api_key=api_key)
Obsidian(key) == [api_key |-> key]

Call(method, params) == [method |-> method, args |-> params]

\* A call as the log keeps it: with the error it raised ("" when it returned).
Made(call, r) == [method |-> call.method, args |-> call.args, raised |-> r.error]

Arrive(t, a) ==
    /\ pc = "serving"
    /\ pc' = "dispatch"
    /\ tool' = t
    /\ args' = a
    /\ UNCHANGED <<api, calls, outcome, error, result, formatted, reads,
                   sections, returned>>
    /\ UNCHANGED startup_vars

\* The declared parameters do not validate: the handler body never runs.
Reject ==
    /\ pc' = "responded"
    /\ outcome' = "rejected"
    /\ error' = "ValidationError"
    /\ UNCHANGED <<tool, args, api, calls, result, formatted, reads, sections,
                   returned>>
    /\ UNCHANGED startup_vars

\* The handler body: the client is built, the one client call is made; when
\* it raises the exception leaves the handler, else the handler returns ret.
Run(call, r, ret) ==
    /\ pc' = "responded"
    /\ api' = <<Obsidian(api_key)>>
    /\ calls' = <<Made(call, r)>>
    /\ outcome' = IF r.ok THEN "ok" ELSE "error"
    /\ error' = r.error
    /\ result' = r.value
    /\ returned' = IF r.ok THEN ret ELSE NoReturn
    /\ UNCHANGED <<tool, args>>
    /\ UNCHANGED startup_vars

Serving(t) == pc = "dispatch" /\ tool = t

\* The answer has left: the handler's locals are gone.
Respond ==
    /\ pc = "responded"
    /\ pc' = "serving"
    /\ tool' = "" /\ args' = NoEnv /\ api' = <<>> /\ calls' = <<>>
    /\ outcome' = "none" /\ error' = "" /\ result' = JNull
    /\ formatted' = JNull /\ reads' = <<>> /\ sections' = <<>>
    /\ returned' = NoReturn
    /\ UNCHANGED startup_vars

(***************************************************************************)
(* Listing and reading.                                                    *)
(***************************************************************************)
FileLists == {JList(<<>>), JList(<<JStr(P_a)>>), JList(<<JStr(P_spaced), JStr(P_a)>>)}

obsidian_list_files_in_vault ==
    /\ Serving("obsidian_list_files_in_vault")
    /\ \E r \in Returns(FileLists) \cup Raises :
         Run(Call("list_files_in_vault", <<>>), r,
             ReturnContent(<<TextContent(JsonDumps(r.value))>>))
    /\ UNCHANGED <<formatted, reads, sections>>

obsidian_list_files_in_dir ==
    /\ Serving("obsidian_list_files_in_dir")
    /\ IF ~Has(args, {"dirpath"}) THEN Reject /\ UNCHANGED <<formatted, reads, sections>>
       ELSE /\ \E r \in Returns(FileLists) \cup Raises :
                 Run(Call("list_files_in_dir", <<args.dirpath>>), r,
                     ReturnStr(JsonDumps(r.value)))
            /\ UNCHANGED <<formatted, reads, sections>>

\* str.strip() of a path.
RECURSIVE Strip(_)
Strip(s) ==
    IF s = <<>> THEN s
    ELSE IF Head(s) = " " THEN Strip(Tail(s))
    ELSE IF s[Len(s)] = " " THEN Strip(SubSeq(s, 1, Len(s) - 1))
    ELSE s

FileBodies == {JStr(c) : c \in Contents}

\* obsidian_get_file_contents tidying the path before it is passed on.
obsidian_get_file_contents_Stripping ==
    /\ Serving("obsidian_get_file_contents")
    /\ IF ~Has(args, {"filepath"}) THEN Reject /\ UNCHANGED <<formatted, reads, sections>>
       ELSE /\ \E r \in Returns(FileBodies) \cup Raises :
                 Run(Call("get_file_contents", <<Strip(args.filepath)>>), r,
                     ReturnStr(JsonDumps(r.value)))
            /\ UNCHANGED <<formatted, reads, sections>>

obsidian_get_file_contents ==
    /\ Serving("obsidian_get_file_contents")
    /\ IF ~Has(args, {"filepath"}) THEN Reject /\ UNCHANGED <<formatted, reads, sections>>
       ELSE /\ \E r \in Returns(FileBodies) \cup Raises :
                 Run(Call("get_file_contents", <<args.filepath>>), r,
                     ReturnStr(JsonDumps(r.value)))
            /\ UNCHANGED <<formatted, reads, sections>>

(***************************************************************************)
(* Simple search.                                                          *)
(***************************************************************************)
K_filename == <<"f", "i", "l", "e", "n", "a", "m", "e">>
K_score == <<"s", "c", "o", "r", "e">>
K_matches == <<"m", "a", "t", "c", "h", "e", "s">>
K_context == <<"c", "o", "n", "t", "e", "x", "t">>
K_match == <<"m", "a", "t", "c", "h">>
K_start == <<"s", "t", "a", "r", "t">>
K_end == <<"e", "n", "d">>
K_match_position ==
    <<"m", "a", "t", "c", "h", "_", "p", "o", "s", "i", "t", "i", "o", "n">>

\* FormatMatch reading the end offset from the start entry.
FormatMatch_EndFromStart(match) ==
    LET context == Get(match, K_context, JStr(<<>>))
        match_pos == Get(match, K_match, JDict(<<>>))
        start == Get(match_pos, K_start, JInt(0))
        end == Get(match_pos, K_start, JInt(0))
    IN  JDict(<< <<K_context, context>>,
                 <<K_match_position,
                   JDict(<< <<K_start, start>>, <<K_end, end>> >>)>> >>)

\* Lines 89-98: one match of a result, reshaped.
FormatMatch(match) ==
    LET context == Get(match, K_context, JStr(<<>>))
        match_pos == Get(match, K_match, JDict(<<>>))
        start == Get(match_pos, K_start, JInt(0))
        end == Get(match_pos, K_end, JInt(0))
    IN  JDict(<< <<K_context, context>>,
                 <<K_match_position,
                   JDict(<< <<K_start, start>>, <<K_end, end>> >>)>> >>)

\* Lines 88-104: one result, reshaped.
FormatResult(res) ==
    LET matches == Get(res, K_matches, JList(<<>>))
        formatted_matches ==
            [j \in 1..Len(matches.v) |-> FormatMatch(matches.v[j])]
    IN  JDict(<< <<K_filename, Get(res, K_filename, JStr(<<>>))>>,
                 <<K_score, Get(res, K_score, JInt(0))>>,
                 <<K_matches, JList(formatted_matches)>> >>)

\* Lines 86-104: formatted_results.
FormatResults(results) ==
    JList([i \in 1..Len(results.v) |-> FormatResult(results.v[i])])

Position(start, end) == JDict(<< <<K_start, JInt(start)>>, <<K_end, JInt(end)>> >>)
MatchOf(context, start, end) ==
    JDict(<< <<K_context, JStr(context)>>, <<K_match, Position(start, end)>> >>)

M_full == MatchOf(<<"x", "a", "b">>, 1, 2)
M_other == MatchOf(<<"a", " ", "\"">>, 0, 1)
M_no_context == JDict(<< <<K_match, Position(1, 2)>> >>)
M_no_match == JDict(<< <<K_context, JStr(<<"a", "b">>)>> >>)
M_no_start ==
    JDict(<< <<K_match, JDict(<< <<K_end, JInt(1)>> >>)>>,
             <<K_context, JStr(<<"a", "b">>)>> >>)
M_no_end ==
    JDict(<< <<K_context, JStr(<<"b", "a">>)>>,
             <<K_match, JDict(<< <<K_start, JInt(1)>> >>)>> >>)
M_empty == JDict(<<>>)

\* The match lists of an answer: of every length up to MaxMatches, two
\* different matches alternating (a reordering shows), and one list of the
\* incomplete matches.
MatchLists ==
    {[j \in 1..n |-> IF (j + first) % 2 = 0 THEN M_full ELSE M_other] :
        n \in 0..MaxMatches, first \in {0, 1}}
    \cup {<<M_no_context, M_no_match, M_no_start, M_no_end, M_empty>>}

ResultDicts ==
    {JDict(<< <<K_filename, JStr(P_a)>>, <<K_score, JInt(0 - 3)>>,
              <<K_matches, JList(ms)>> >>) : ms \in MatchLists}
    \cup {JDict(<< <<K_filename, JStr(P_dotted)>> >>),
          JDict(<< <<K_matches, JList(<<M_other>>)>>, <<K_score, JInt(12)>> >>)}

SearchAnswers == {JList(rs) : rs \in SeqsUpTo(ResultDicts, MaxResults)}

ContextLengthDefault == 100

obsidian_simple_search ==
    /\ Serving("obsidian_simple_search")
    /\ IF ~Has(args, {"query"}) THEN Reject /\ UNCHANGED <<formatted, reads, sections>>
       ELSE LET bound == Bind(args, [context_length |-> ContextLengthDefault])
            IN  /\ \E r \in Returns(SearchAnswers) \cup Raises :
                     LET formatted_results == FormatResults(r.value)
                     IN  /\ Run(Call("search", <<bound.query, bound.context_length>>),
                                r, ReturnStr(JsonDumps(formatted_results)))
                         /\ formatted' = IF r.ok THEN formatted_results ELSE JNull
                /\ UNCHANGED <<reads, sections>>

(***************************************************************************)
(* Writing.                                                                *)
(***************************************************************************)
AppendedPrefix ==
    <<"S", "u", "c", "c", "e", "s", "s", "f", "u", "l", "l", "y", " ", "a", "p", "p", "e",
    "n", "d", "e", "d", " ", "c", "o", "n", "t", "e", "n", "t", " ", "t", "o", " ">>
PatchedPrefix ==
    <<"S", "u", "c", "c", "e", "s", "s", "f", "u", "l", "l", "y", " ", "p", "a", "t", "c",
    "h", "e", "d", " ", "c", "o", "n", "t", "e", "n", "t", " ", "i", "n", " ">>
DeletedPrefix ==
    <<"S", "u", "c", "c", "e", "s", "s", "f", "u", "l", "l", "y", " ", "d", "e", "l", "e",
    "t", "e", "d", " ">>

\* The write methods of the client return nothing.
Nothing == {JNull}

\* obsidian_append_content reporting success whatever the client call did.
obsidian_append_content_Swallowing ==
    /\ Serving("obsidian_append_content")
    /\ IF ~Has(args, {"filepath", "content"}) THEN Reject
       ELSE \E r \in Returns(Nothing) \cup Raises :
              /\ pc' = "responded"
              /\ api' = <<Obsidian(api_key)>>
              /\ calls' = <<Made(Call("append_content",
                                      <<args.filepath, args.content>>), r)>>
              /\ outcome' = "ok"
              /\ error' = ""
              /\ result' = r.value
              /\ returned' = ReturnStr(AppendedPrefix \o args.filepath)
              /\ UNCHANGED <<tool, args>>
              /\ UNCHANGED startup_vars
    /\ UNCHANGED <<formatted, reads, sections>>

obsidian_append_content ==
    /\ Serving("obsidian_append_content")
    /\ IF ~Has(args, {"filepath", "content"}) THEN Reject
       ELSE \E r \in Returns(Nothing) \cup Raises :
              Run(Call("append_content", <<args.filepath, args.content>>), r,
                  ReturnStr(AppendedPrefix \o args.filepath))
    /\ UNCHANGED <<formatted, reads, sections>>

OperationLiteral == {"append", "prepend", "replace"}
TargetTypeLiteral == {"heading", "block", "frontmatter"}

obsidian_patch_content ==
    /\ Serving("obsidian_patch_content")
    /\ IF \/ ~Has(args, {"filepath", "operation", "target_type", "target", "content"})
          \/ args.operation \notin OperationLiteral
          \/ args.target_type \notin TargetTypeLiteral
       THEN Reject
       ELSE \E r \in Returns(Nothing) \cup Raises :
              Run(Call("patch_content",
                       <<args.filepath, args.operation, args.target_type,
                         args.target, args.content>>), r,
                  ReturnStr(PatchedPrefix \o args.filepath))
    /\ UNCHANGED <<formatted, reads, sections>>

\* Lines 139-145: confirm is declared (required) and never read.
obsidian_delete_file ==
    /\ Serving("obsidian_delete_file")
    /\ IF ~Has(args, {"filepath", "confirm"}) THEN Reject
       ELSE \E r \in Returns(Nothing) \cup Raises :
              Run(Call("delete_file", <<args.filepath>>), r,
                  ReturnStr(DeletedPrefix \o args.filepath))
    /\ UNCHANGED <<formatted, reads, sections>>

(***************************************************************************)
(* Complex search.                                                         *)
(***************************************************************************)
K_glob == <<"g", "l", "o", "b">>
K_var == <<"v", "a", "r">>
K_path == <<"p", "a", "t", "h">>
K_content == <<"c", "o", "n", "t", "e", "n", "t">>

GlobQuery ==
    JDict(<< <<K_glob, JList(<<JStr(<<"a", ".", "x">>),
                               JDict(<< <<K_var, JStr(K_path)>> >>)>>)>> >>)
JsonLogicQueries == {GlobQuery, JDict(<<>>)}

ComplexAnswers ==
    {JList(<<>>),
     JList(<<JDict(<< <<K_filename, JStr(P_a)>>, <<K_score, JInt(1)>> >>)>>)}

obsidian_complex_search ==
    /\ Serving("obsidian_complex_search")
    /\ IF ~Has(args, {"query"}) THEN Reject
       ELSE \E r \in Returns(ComplexAnswers) \cup Raises :
              Run(Call("search_json", <<args.query>>), r,
                  ReturnStr(JsonDumps(r.value)))
    /\ UNCHANGED <<formatted, reads, sections>>

(***************************************************************************)
(* Batch read.  The client's get_batch_file_contents reads the paths one   *)
(* after the other; a read that fails becomes an error note in its place.  *)
(***************************************************************************)
ErrorNotePrefix ==
    <<"E", "r", "r", "o", "r", " ", "r", "e", "a", "d", "i", "n", "g", " ", "f", "i", "l",
    "e", ":", " ">>
SectionEnd == <<"\n", "\n", "-", "-", "-", "\n", "\n">>

ErrorText(e) ==
    CASE e = "HTTP 404" -> <<"4", "0", "4">>
      [] e = "HTTP 500" -> <<"5", "0", "0">>
      [] OTHER -> <<"x">>

\* The section of one path: a header line naming the path, then the file's
\* content, or the error note when the read raised.
Section(path, read) ==
    [path |-> path,
     failed |-> ~read.ok,
     body |-> IF read.ok THEN read.value.v ELSE ErrorNotePrefix \o ErrorText(read.error)]

SectionText(sec) ==
    <<"#", " ">> \o sec.path \o <<"\n", "\n">> \o sec.body \o SectionEnd

BatchSections(filepaths, rds) ==
    [i \in 1..Len(filepaths) |-> Section(filepaths[i], rds[i])]

\* What get_batch_file_contents returns: the sections' text, joined.
get_batch_file_contents(filepaths, rds) ==
    JStr(Flatten([i \in 1..Len(filepaths) |->
                    SectionText(BatchSections(filepaths, rds)[i])]))

ReadOutcomes == Returns({JStr(<<"x">>), JStr(<<"#", " ", "a", "\n", "\\">>)}) \cup Raises

\* obsidian_batch_get_file_contents serialising the blob as its siblings do.
obsidian_batch_get_file_contents_Dumping ==
    /\ Serving("obsidian_batch_get_file_contents")
    /\ IF ~Has(args, {"filepaths"}) THEN Reject /\ UNCHANGED <<reads, sections>>
       ELSE \E rds \in [1..Len(args.filepaths) -> ReadOutcomes] :
              LET content == get_batch_file_contents(args.filepaths, rds)
              IN  /\ Run(Call("get_batch_file_contents", <<args.filepaths>>),
                         [ok |-> TRUE, value |-> content, error |-> ""],
                         ReturnStr(JsonDumps(content)))
                  /\ reads' = rds
                  /\ sections' = BatchSections(args.filepaths, rds)
    /\ UNCHANGED formatted

obsidian_batch_get_file_contents ==
    /\ Serving("obsidian_batch_get_file_contents")
    /\ IF ~Has(args, {"filepaths"}) THEN Reject /\ UNCHANGED <<reads, sections>>
       ELSE \E rds \in [1..Len(args.filepaths) -> ReadOutcomes] :
              LET content == get_batch_file_contents(args.filepaths, rds)
              IN  /\ Run(Call("get_batch_file_contents", <<args.filepaths>>),
                         [ok |-> TRUE, value |-> content, error |-> ""],
                         ReturnStr(content.v))
                  /\ reads' = rds
                  /\ sections' = BatchSections(args.filepaths, rds)
    /\ UNCHANGED formatted

(***************************************************************************)
(* Periodic notes and recent changes.                                      *)
(***************************************************************************)
\* The Literal of lines 172 and 182 with a sixth value.
PeriodLiteral_Widened ==
    {"daily", "weekly", "monthly", "quarterly", "yearly", "hourly"}

PeriodLiteral == {"daily", "weekly", "monthly", "quarterly", "yearly"}

obsidian_get_periodic_note ==
    /\ Serving("obsidian_get_periodic_note")
    /\ IF ~Has(args, {"period"}) \/ args.period \notin PeriodLiteral THEN Reject
       ELSE \E r \in Returns(FileBodies) \cup Raises :
              Run(Call("get_periodic_note", <<args.period>>), r, ReturnStr(r.value.v))
    /\ UNCHANGED <<formatted, reads, sections>>

RecentNotesLimitDefault == 5
RecentNotesLimitMin == 1
RecentNotesLimitMax == 50

\* The limit's upper bound one too high.
RecentNotesLimitOk_OffByOne(limit) ==
    limit >= RecentNotesLimitMin /\ limit <= RecentNotesLimitMax + 1

\* Line 183: ge=1, le=50.
RecentNotesLimitOk(limit) ==
    limit >= RecentNotesLimitMin /\ limit <= RecentNotesLimitMax

NoteLists ==
    {JList(<<>>),
     JList(<<JDict(<< <<K_path, JStr(P_a)>> >>)>>),
     JList(<<JDict(<< <<K_path, JStr(P_a)>>, <<K_content, JStr(<<"x", "\n">>)>> >>)>>)}

obsidian_get_recent_periodic_notes ==
    /\ Serving("obsidian_get_recent_periodic_notes")
    /\ LET bound == Bind(args, [limit |-> RecentNotesLimitDefault,
                                include_content |-> FALSE])
       IN  IF \/ ~Has(args, {"period"})
              \/ bound.period \notin PeriodLiteral
              \/ ~RecentNotesLimitOk(bound.limit)
           THEN Reject
           ELSE \E r \in Returns(NoteLists) \cup Raises :
                  Run(Call("get_recent_periodic_notes",
                           <<bound.period, bound.limit, bound.include_content>>), r,
                      ReturnStr(JsonDumps(r.value)))
    /\ UNCHANGED <<formatted, reads, sections>>

RecentChangesLimitDefault == 10
RecentChangesLimitMin == 1
RecentChangesLimitMax == 100
RecentChangesDaysDefault == 90
RecentChangesDaysMin == 1

\* Line 194: ge=1, le=100.
RecentChangesLimitOk(limit) ==
    limit >= RecentChangesLimitMin /\ limit <= RecentChangesLimitMax

\* The days' bound with ge=0.
RecentChangesDaysOk_NonNegative(days) == days >= RecentChangesDaysMin - 1

\* Line 195: ge=1.
RecentChangesDaysOk(days) == days >= RecentChangesDaysMin

obsidian_get_recent_changes ==
    /\ Serving("obsidian_get_recent_changes")
    /\ LET bound == Bind(args, [limit |-> RecentChangesLimitDefault,
                                days |-> RecentChangesDaysDefault])
       IN  IF ~RecentChangesLimitOk(bound.limit) \/ ~RecentChangesDaysOk(bound.days)
           THEN Reject
           ELSE \E r \in Returns(NoteLists) \cup Raises :
                  Run(Call("get_recent_changes", <<bound.limit, bound.days>>), r,
                      ReturnStr(JsonDumps(r.value)))
    /\ UNCHANGED <<formatted, reads, sections>>

(***************************************************************************)
(* The calls the runtime may receive.                                      *)
(***************************************************************************)
Tools ==
    {"obsidian_list_files_in_vault", "obsidian_list_files_in_dir",
     "obsidian_get_file_contents", "obsidian_simple_search",
     "obsidian_append_content", "obsidian_patch_content", "obsidian_delete_file",
     "obsidian_complex_search", "obsidian_batch_get_file_contents",
     "obsidian_get_periodic_note", "obsidian_get_recent_periodic_notes",
     "obsidian_get_recent_changes"}

PeriodInputs == PeriodLiteral \cup {"hourly", "Daily", ""}

RecentNotesLimitInputs ==
    Around(RecentNotesLimitMin) \cup Around(RecentNotesLimitMax)
    \cup {RecentNotesLimitDefault, 0 - RecentNotesLimitMax}

RecentChangesLimitInputs ==
    Around(RecentChangesLimitMin) \cup Around(RecentChangesLimitMax)
    \cup {RecentChangesLimitDefault, 0 - RecentChangesLimitMax}

RecentChangesDaysInputs ==
    Around(RecentChangesDaysMin)
    \cup {RecentChangesDaysDefault, 0 - RecentChangesDaysDefault}

Requests(t) ==
    CASE t = "obsidian_list_files_in_vault" -> {NoEnv}
      [] t = "obsidian_list_files_in_dir" ->
            WithOmissions({[dirpath |-> p] : p \in Paths})
      [] t = "obsidian_get_file_contents" ->
            WithOmissions({[filepath |-> p] : p \in Paths})
      [] t = "obsidian_simple_search" ->
            WithOmissions({[query |-> <<"a">>, context_length |-> 10]})
      [] t = "obsidian_append_content" ->
            WithOmissions({[filepath |-> p, content |-> c] :
                              p \in Paths, c \in Contents})
      [] t = "obsidian_patch_content" ->
            WithOmissions({[filepath |-> p, operation |-> o, target_type |-> tt,
                            target |-> <<"a">>, content |-> <<"x">>] :
                              p \in {P_a, P_dotted},
                              o \in OperationLiteral \cup {"delete"},
                              tt \in TargetTypeLiteral \cup {"line"}})
      [] t = "obsidian_delete_file" ->
            WithOmissions({[filepath |-> p, confirm |-> c] :
                              p \in Paths, c \in BOOLEAN})
      [] t = "obsidian_complex_search" ->
            WithOmissions({[query |-> q] : q \in JsonLogicQueries})
      [] t = "obsidian_batch_get_file_contents" ->
            WithOmissions({[filepaths |-> ps] : ps \in SeqsUpTo(Paths, MaxPaths)})
      [] t = "obsidian_get_periodic_note" ->
            WithOmissions({[period |-> p] : p \in PeriodInputs})
      [] t = "obsidian_get_recent_periodic_notes" ->
            WithOmissions({[period |-> p, limit |-> n, include_content |-> c] :
                              p \in {"daily", "yearly", "hourly"},
                              n \in RecentNotesLimitInputs, c \in BOOLEAN})
      [] t = "obsidian_get_recent_changes" ->
            WithOmissions(WithOmissions({[limit |-> n, days |-> d] :
                              n \in RecentChangesLimitInputs,
                              d \in RecentChangesDaysInputs}))

\* A tool call arrives.
Request == \E t \in Tools : \E a \in Requests(t) : Arrive(t, a)

Next ==
    \/ ImportModule
    \/ main
    \/ Request
    \/ obsidian_list_files_in_vault
    \/ obsidian_list_files_in_dir
    \/ obsidian_get_file_contents
    \/ obsidian_simple_search
    \/ obsidian_append_content
    \/ obsidian_patch_content
    \/ obsidian_delete_file
    \/ obsidian_complex_search
    \/ obsidian_batch_get_file_contents
    \/ obsidian_get_periodic_note
    \/ obsidian_get_recent_periodic_notes
    \/ obsidian_get_recent_changes
    \/ Respond

Spec == Init /\ [][Next]_vars

(***************************************************************************)
(* Properties.                                                             *)
(***************************************************************************)
Answered == pc = "responded"
Accepted == Answered /\ outcome \in {"ok", "error"}
Rejected == Answered /\ outcome = "rejected"
Reached(method) == \E i \in 1..Len(calls) : calls[i].method = method
Given(name) == name \in DOMAIN args

\* C1: the delete tool reaches api.delete_file only when confirm was given
\* and is true; with confirm false or omitted the call is rejected.
C1_DeleteNeedsConfirm ==
    (Answered /\ tool = "obsidian_delete_file") =>
        /\ Reached("delete_file") => (Given("confirm") /\ args.confirm)
        /\ (~Given("confirm") \/ ~args.confirm) => (Rejected /\ calls = <<>>)

FivePeriods == {"daily", "weekly", "monthly", "quarterly", "yearly"}
PeriodTools == {"obsidian_get_periodic_note", "obsidian_get_recent_periodic_notes"}

\* C2: the two periodic-note tools reject a period outside the five values
\* before any client method is called, and only the five values reach
\* api.get_periodic_note and api.get_recent_periodic_notes.
C2_PeriodValidated ==
    (Answered /\ tool \in PeriodTools) =>
        /\ (Given("period") /\ args.period \notin FivePeriods) =>
              (Rejected /\ calls = <<>> /\ api = <<>>)
        /\ \A i \in 1..Len(calls) : calls[i].args[1] \in FivePeriods

C2_Witness ==
    /\ Rejected /\ tool = "obsidian_get_recent_periodic_notes"
    /\ Given("period") /\ args.period = "hourly"
    /\ Given("limit") /\ args.limit = 5

\* C3: get-recent-periodic-notes rejects a limit below 1 or above 50 without
\* calling the client; the limit the client is called with lies in 1..50 and
\* is 5 when the caller omitted it.
C3_RecentNotesLimit ==
    (Answered /\ tool = "obsidian_get_recent_periodic_notes") =>
        /\ (Given("limit") /\ (args.limit < 1 \/ args.limit > 50)) =>
              (Rejected /\ calls = <<>> /\ api = <<>>)
        /\ \A i \in 1..Len(calls) :
              /\ calls[i].args[2] >= 1 /\ calls[i].args[2] <= 50
              /\ ~Given("limit") => calls[i].args[2] = 5
              /\ Given("limit") => calls[i].args[2] = args.limit

C3_Witness ==
    /\ Rejected /\ tool = "obsidian_get_recent_periodic_notes"
    /\ Given("period") /\ args.period = "daily"
    /\ Given("limit") /\ args.limit = 51

\* C4: get-recent-changes rejects a limit outside 1..100 or days below 1
\* without calling the client; the client is called with 1 <= limit <= 100
\* and days >= 1, 10 and 90 standing in for what the caller omitted.
C4_RecentChangesBounds ==
    (Answered /\ tool = "obsidian_get_recent_changes") =>
        /\ (\/ Given("limit") /\ (args.limit < 1 \/ args.limit > 100)
            \/ Given("days") /\ args.days < 1) =>
              (Rejected /\ calls = <<>> /\ api = <<>>)
        /\ \A i \in 1..Len(calls) :
              /\ calls[i].args[1] >= 1 /\ calls[i].args[1] <= 100
              /\ calls[i].args[2] >= 1
              /\ calls[i].args[1] = IF Given("limit") THEN args.limit ELSE 10
              /\ calls[i].args[2] = IF Given("days") THEN args.days ELSE 90

C4_Witness ==
    /\ Rejected /\ tool = "obsidian_get_recent_changes"
    /\ Given("limit") /\ args.limit = 100
    /\ Given("days") /\ args.days = 0

SuccessTexts ==
    {AppendedPrefix \o p : p \in Paths} \cup {PatchedPrefix \o p : p \in Paths}
    \cup {DeletedPrefix \o p : p \in Paths}

\* C5: for every tool but batch read, when the client call raises, the call
\* ends in failure with that error, nothing is returned (no success text, no
\* substitute result), and the client call was made once only.
C5_ClientErrorPropagates ==
    (Answered /\ tool # "obsidian_batch_get_file_contents") =>
        \A i \in 1..Len(calls) :
            calls[i].raised # "" =>
                /\ outcome = "error"
                /\ error = calls[i].raised
                /\ returned = NoReturn
                /\ returned.v \notin SuccessTexts
                /\ Len(calls) = 1

C5_Witness ==
    /\ Answered /\ tool = "obsidian_append_content"
    /\ Len(calls) = 1 /\ calls[1].raised = "HTTP 500"

ErrorMarked(sec) ==
    /\ Len(sec.body) >= Len(ErrorNotePrefix)
    /\ SubSeq(sec.body, 1, Len(ErrorNotePrefix)) = ErrorNotePrefix

FailedReads == {i \in 1..Len(reads) : ~reads[i].ok}

\* C6: a batch read of N paths answers with N sections in the order of the
\* paths; the section of a path whose read failed holds the error note, the
\* others hold the content read, the returned text is the sections' text in
\* that order, and the call does not fail because a read failed.
C6_BatchSections ==
    (Answered /\ tool = "obsidian_batch_get_file_contents" /\ Given("filepaths")) =>
        /\ outcome = "ok"
        /\ Len(calls) = 1
        /\ Len(sections) = Len(args.filepaths)
        /\ Len(reads) = Len(args.filepaths)
        /\ \A i \in 1..Len(sections) :
              /\ sections[i].path = args.filepaths[i]
              /\ sections[i].failed = (i \in FailedReads)
              /\ i \in FailedReads => ErrorMarked(sections[i])
              /\ i \notin FailedReads => sections[i].body = reads[i].value.v
        /\ returned =
              ReturnStr(Flatten([i \in 1..Len(sections) |->
                  <<"#", " ">> \o args.filepaths[i] \o <<"\n", "\n">>
                  \o sections[i].body \o SectionEnd]))

C6_Witness ==
    /\ Answered /\ tool = "obsidian_batch_get_file_contents" /\ Given("filepaths")
    /\ Len(args.filepaths) = MaxPaths
    /\ Cardinality(FailedReads) = 1
    /\ outcome = "ok"

Started == pc \in {"imported", "exited", "serving", "dispatch", "responded"}

\* The key the environment and the .env file give the process.
KeyGiven ==
    IF KeyVar \in DOMAIN environ THEN environ[KeyVar]
    ELSE IF KeyVar \in DOMAIN dotenv THEN dotenv[KeyVar] ELSE ""

C7_State ==
    /\ pc = "refused" => api_key = ""
    /\ Started =>
        /\ api_key # ""
        /\ api_key = KeyGiven
        /\ \A i \in 1..Len(api) : api[i] = [api_key |-> api_key]
    /\ pc = "dispatch" => api = <<>>
    /\ Accepted => Len(api) = 1

C7_Step ==
    /\ Started => (api_key' = api_key /\ environ' = environ /\ dotenv' = dotenv)
    /\ pc \in {"serving", "dispatch", "responded"} =>
          (settings' = settings /\ transport' = transport)

WireText(ret) == IF ret.form = "content" THEN ret.v[1].text ELSE ret.v

PassThroughTools ==
    {"obsidian_list_files_in_vault", "obsidian_list_files_in_dir",
     "obsidian_get_file_contents", "obsidian_complex_search",
     "obsidian_batch_get_file_contents", "obsidian_get_periodic_note",
     "obsidian_get_recent_periodic_notes", "obsidian_get_recent_changes"}

\* C8: on success a tool returns the client's result as pretty-printed JSON
\* text, or unchanged as plain text when that result is a single string
\* (stated for the tools that return the client's result as it came).
C8_UniformResultForm ==
    (Answered /\ outcome = "ok" /\ tool \in PassThroughTools) =>
        /\ returned.form \in {"str", "content"}
        /\ WireText(returned) =
              IF result.k = "str" THEN result.v ELSE JsonDumps(result)

MethodOf(t) ==
    CASE t = "obsidian_list_files_in_vault" -> "list_files_in_vault"
      [] t = "obsidian_list_files_in_dir" -> "list_files_in_dir"
      [] t = "obsidian_get_file_contents" -> "get_file_contents"
      [] t = "obsidian_simple_search" -> "search"
      [] t = "obsidian_append_content" -> "append_content"
      [] t = "obsidian_patch_content" -> "patch_content"
      [] t = "obsidian_delete_file" -> "delete_file"
      [] t = "obsidian_complex_search" -> "search_json"
      [] t = "obsidian_batch_get_file_contents" -> "get_batch_file_contents"
      [] t = "obsidian_get_periodic_note" -> "get_periodic_note"
      [] t = "obsidian_get_recent_periodic_notes" -> "get_recent_periodic_notes"
      [] t = "obsidian_get_recent_changes" -> "get_recent_changes"

Or(name, default) == IF Given(name) THEN args[name] ELSE default

\* The caller's parameters, in the order the client method takes them.
PassedOn(t) ==
    CASE t = "obsidian_list_files_in_vault" -> <<>>
      [] t = "obsidian_list_files_in_dir" -> <<args.dirpath>>
      [] t = "obsidian_get_file_contents" -> <<args.filepath>>
      [] t = "obsidian_simple_search" -> <<args.query, Or("context_length", 100)>>
      [] t = "obsidian_append_content" -> <<args.filepath, args.content>>
      [] t = "obsidian_patch_content" ->
            <<args.filepath, args.operation, args.target_type, args.target,
              args.content>>
      [] t = "obsidian_delete_file" -> <<args.filepath>>
      [] t = "obsidian_complex_search" -> <<args.query>>
      [] t = "obsidian_batch_get_file_contents" -> <<args.filepaths>>
      [] t = "obsidian_get_periodic_note" -> <<args.period>>
      [] t = "obsidian_get_recent_periodic_notes" ->
            <<args.period, Or("limit", 5), Or("include_content", FALSE)>>
      [] t = "obsidian_get_recent_changes" -> <<Or("limit", 10), Or("days", 90)>>

\* C9: an accepted tool call makes exactly one client method call, the one
\* of its tool, with the caller's parameters as given (a path is not
\* normalised); a rejected call makes none; api.delete_file is called by the
\* delete tool only.
C9_OneMatchingCall ==
    /\ Accepted =>
        /\ Len(calls) = 1
        /\ calls[1].method = MethodOf(tool)
        /\ calls[1].args = PassedOn(tool)
    /\ Rejected => calls = <<>>
    /\ Reached("delete_file") => tool = "obsidian_delete_file"

C9_Witness ==
    /\ Accepted /\ tool = "obsidian_get_file_contents"
    /\ args.filepath = P_spaced
    /\ calls = <<[method |-> "get_file_contents", args |-> <<P_spaced>>,
                  raised |-> ""]>>

Absent == JNull
In(d, key) == Get(d, key, Absent)

MatchKept(m, out) ==
    LET pos == Get(m, K_match, JDict(<<>>))
        context == Get(m, K_context, JStr(<<>>))
        start == Get(pos, K_start, JInt(0))
        end == Get(pos, K_end, JInt(0))
        outpos == In(out, K_match_position)
    IN  /\ In(out, K_context) = context
        /\ outpos.k = "dict"
        /\ In(outpos, K_start) = start
        /\ In(outpos, K_end) = end
        /\ Slice(In(out, K_context).v, In(outpos, K_start).v, In(outpos, K_end).v)
              = Slice(context.v, start.v, end.v)

ResultKept(res, out) ==
    LET ms == Get(res, K_matches, JList(<<>>))
        outms == In(out, K_matches)
    IN  /\ In(out, K_filename) = Get(res, K_filename, JStr(<<>>))
        /\ In(out, K_score) = Get(res, K_score, JInt(0))
        /\ outms.k = "list"
        /\ Len(outms.v) = Len(ms.v)
        /\ \A j \in 1..Len(ms.v) : MatchKept(ms.v[j], outms.v[j])

\* C10: simple search keeps the client's results: one entry per result in
\* the same order, as many matches per entry in the same order, each match's
\* context, start and end unchanged (so the slice of the context at start
\* and end is the same text), a missing field alone being replaced by its
\* default (filename '', score 0, matches [], context '', start 0, end 0).
C10_SearchKept ==
    (Answered /\ tool = "obsidian_simple_search" /\ outcome = "ok") =>
        /\ formatted.k = "list"
        /\ Len(formatted.v) = Len(result.v)
        /\ \A i \in 1..Len(result.v) : ResultKept(result.v[i], formatted.v[i])
        /\ returned = ReturnStr(JsonDumps(formatted))

C10_Witness ==
    /\ Answered /\ tool = "obsidian_simple_search" /\ outcome = "ok"
    /\ Len(result.v) = MaxResults
    /\ Get(result.v[1], K_matches, JList(<<>>)) = JList(<<M_other, M_full>>)
    /\ ~HasKey(result.v[MaxResults], K_score)
    /\ Len(formatted.v) = MaxResults
=============================================================================
